---- MODULE Spec2Model ----
(***************************************************************************)
(* A model of archive_tool.py: the message normalizer, the conversation    *)
(* linearizer, the streaming JSON array reader with its bulk fallback, and *)
(* the day / month / topic aggregation.                                    *)
(*                                                                         *)
(* Four specifications share the module, one per component; each one       *)
(* leaves the variables of the other components at their idle values.      *)
(*   SpecNormalize  normalize_message on raw message records               *)
(*   SpecLinearize  parse_openai_conversations / linearize_conversation    *)
(*   SpecStream     iter_json_array, load_conversations_*, main's fallback *)
(*   SpecArchive    write_by_day_raw, build_month_files, topic preview     *)
(***************************************************************************)
EXTENDS Integers, Sequences, FiniteSets, TLC

VARIABLES
    n_pc, n_msg, n_out,
    l_pc, l_conv, l_node, l_ids, l_seen, l_root, l_path, l_visited,
    l_cache, l_stack, l_frames, l_ret, l_scan, l_steps, l_primary,
    l_fallback, l_out, l_result,
    s_pc, s_doc, s_elems, s_pos, s_buf, s_yielded, s_extracted, s_raised,
    a_day, a_month, a_topics, a_gap, a_builds, a_stage

n_vars == <<n_pc, n_msg, n_out>>
l_vars == <<l_pc, l_conv, l_node, l_ids, l_seen, l_root, l_path, l_visited,
            l_cache, l_stack, l_frames, l_ret, l_scan, l_steps, l_primary,
            l_fallback, l_out, l_result>>
s_vars == <<s_pc, s_doc, s_elems, s_pos, s_buf, s_yielded, s_extracted, s_raised>>
a_vars == <<a_day, a_month, a_topics, a_gap, a_builds, a_stage>>
vars == <<n_vars, l_vars, s_vars, a_vars>>

(***************************************************************************)
(* Sequences helpers.                                                      *)
(***************************************************************************)
Range(s) == {s[i] : i \in 1..Len(s)}

Drop(s, k) == SubSeq(s, k + 1, Len(s))

Take(s, k) == SubSeq(s, 1, k)

Reverse(s) == [i \in 1..Len(s) |-> s[Len(s) + 1 - i]]

RECURSIVE Concat(_)
Concat(ss) == IF ss = <<>> THEN <<>> ELSE Head(ss) \o Concat(Tail(ss))

SeqsUpTo(S, k) == UNION {[1..m -> S] : m \in 0..k}

(***************************************************************************)
(* JSON values as Python sees them after json decoding.  Every value is a  *)
(* record of one shape: k the kind, a the characters of a string (or the   *)
(* key of an object member, or "inf"/"nan" of a non-finite float), h and n *)
(* a number h * 10^9 + n, xs the elements of an array or the members of an *)
(* object.  A character is a one-token string.                             *)
(***************************************************************************)
\* One unit of h: 10^9, written as a product (TLC's integers are 32-bit, and
\* 1e12 is not one of them: a number is kept as the pair h, n).
Billion == 1000 * 1000 * 1000

JAbsent == [k |-> "absent", a |-> <<>>, h |-> 0, n |-> 0, xs |-> <<>>]

JNull == [k |-> "null", a |-> <<>>, h |-> 0, n |-> 0, xs |-> <<>>]

JStr(cs) == [k |-> "str", a |-> cs, h |-> 0, n |-> 0, xs |-> <<>>]

JNum(hi, lo) == [k |-> "num", a |-> <<>>, h |-> hi, n |-> lo, xs |-> <<>>]

JInf == [k |-> "num", a |-> <<"inf">>, h |-> 0, n |-> 0, xs |-> <<>>]

JNan == [k |-> "num", a |-> <<"nan">>, h |-> 0, n |-> 0, xs |-> <<>>]

JArr(vs) == [k |-> "arr", a |-> <<>>, h |-> 0, n |-> 0, xs |-> vs]

JPair(key, v) == [k |-> "pair", a |-> <<key>>, h |-> 0, n |-> 0, xs |-> <<v>>]

JObj(ps) == [k |-> "obj", a |-> <<>>, h |-> 0, n |-> 0, xs |-> ps]

\* Python's None: a JSON null, or what dict.get returns for a missing key.
IsNone(v) == v.k \in {"absent", "null"}

IsStr(v) == v.k = "str"

IsDict(v) == v.k = "obj"

IsList(v) == v.k = "arr"

IsFinite(v) == v.k = "num" /\ v.a = <<>>

\* bool(v): None, "", 0, [] and {} are falsy; nan and inf are truthy.
Truthy(v) ==
    CASE v.k \in {"absent", "null"} -> FALSE
      [] v.k = "str" -> v.a # <<>>
      [] v.k = "num" -> v.a # <<>> \/ v.h # 0 \/ v.n # 0
      [] OTHER -> v.xs # <<>>

\* key in d, for a dict d.
HasKey(d, key) == \E i \in 1..Len(d.xs) : d.xs[i].a = <<key>>

\* d.get(key): the last member of that key (a later duplicate wins), or None.
Get(d, key) ==
    IF HasKey(d, key)
    THEN LET i == CHOOSE j \in 1..Len(d.xs) :
                    /\ d.xs[j].a = <<key>>
                    /\ \A m \in (j + 1)..Len(d.xs) : d.xs[m].a # <<key>>
         IN d.xs[i].xs[1]
    ELSE JAbsent

\* a or b
Or(x, y) == IF Truthy(x) THEN x ELSE y

(***************************************************************************)
(* Strings: str.strip, "\n".join, float(str).                              *)
(***************************************************************************)
Whitespace == {" ", "\n", "\t", "\r"}

RECURSIVE LStrip(_)
LStrip(cs) ==
    IF cs # <<>> /\ Head(cs) \in Whitespace THEN LStrip(Tail(cs)) ELSE cs

Strip(cs) == Reverse(LStrip(Reverse(LStrip(cs))))

RECURSIVE Join(_)
Join(strs) ==
    IF strs = <<>> THEN <<>>
    ELSE IF Len(strs) = 1 THEN strs[1]
    ELSE strs[1] \o <<"\n">> \o Join(Tail(strs))

Digits == {"0", "1", "2", "3", "4", "5", "6", "7", "8", "9"}

DigitVal(c) ==
    CASE c = "0" -> 0 [] c = "1" -> 1 [] c = "2" -> 2 [] c = "3" -> 3
      [] c = "4" -> 4 [] c = "5" -> 5 [] c = "6" -> 6 [] c = "7" -> 7
      [] c = "8" -> 8 [] c = "9" -> 9

RECURSIVE DigitsVal(_)
DigitsVal(cs) ==
    IF cs = <<>> THEN 0
    ELSE DigitsVal(Take(cs, Len(cs) - 1)) * 10 + DigitVal(cs[Len(cs)])

\* float(v): [ok, v]; ok is FALSE where Python raises ValueError / TypeError.
ToFloat(v) ==
    CASE v.k = "num" -> [ok |-> TRUE, v |-> v]
      [] v.k = "str" ->
           LET cs == Strip(v.a) IN
           IF cs = <<"inf">> THEN [ok |-> TRUE, v |-> JInf]
           ELSE IF cs = <<"nan">> THEN [ok |-> TRUE, v |-> JNan]
           ELSE IF cs # <<>> /\ Range(cs) \subseteq Digits
                THEN [ok |-> TRUE, v |-> JNum(0, DigitsVal(cs))]
                ELSE [ok |-> FALSE, v |-> JNull]
      [] OTHER -> [ok |-> FALSE, v |-> JNull]

(***************************************************************************)
(* normalize_timestamp and normalize_message.  A result carries raised:    *)
(* TRUE where the Python code leaves by an uncaught exception.             *)
(***************************************************************************)
MsThresholdBillions == 1000

\* t > 1e12
AboveMsThreshold(v) ==
    v.h > MsThresholdBillions \/ (v.h = MsThresholdBillions /\ v.n > 0)

normalize_timestamp(ts) ==
    IF IsNone(ts) THEN [raised |-> FALSE, ts |-> 0]
    ELSE LET f == ToFloat(ts) IN
         IF ~f.ok THEN [raised |-> FALSE, ts |-> 0]
         ELSE IF ~IsFinite(f.v) THEN [raised |-> TRUE, ts |-> 0]
         ELSE IF AboveMsThreshold(f.v)
              THEN [raised |-> FALSE,
                    ts |-> f.v.h * (Billion \div 1000) + (f.v.n \div 1000)]
              ELSE [raised |-> FALSE, ts |-> f.v.h * Billion + f.v.n]

\* msg.get("create_time"), else metadata's timestamp / timestamp_ (lines 47-50
\* and 62-65): [raised, v].
RawTimestamp(msg) ==
    LET ct == Get(msg, "create_time") IN
    IF Truthy(ct) THEN [raised |-> FALSE, v |-> ct]
    ELSE LET meta == Or(Get(msg, "metadata"), JObj(<<>>)) IN
         IF ~IsDict(meta) THEN [raised |-> TRUE, v |-> JNull]
         ELSE [raised |-> FALSE,
               v |-> Or(Get(meta, "timestamp"), Get(meta, "timestamp_"))]

Raised == [raised |-> TRUE, role |-> JNull, content |-> <<>>, ts |-> 0]

MessageRole(msg) ==
    LET author == Or(Get(msg, "author"), JObj(<<>>)) IN
    IF ~IsDict(author) THEN [raised |-> TRUE, v |-> JNull]
    ELSE [raised |-> FALSE,
          v |-> Or(Or(Get(author, "role"), Get(msg, "role")),
                   JStr(<<"assistant">>))]

\* lines 38-46: the content before "(content or '').strip()".
MessageContent(msg) ==
    LET c == Get(msg, "content") IN
    IF IsDict(c) /\ HasKey(c, "parts")
    THEN LET parts == Get(c, "parts") IN
         IF IsList(parts)
         THEN JStr(Join([i \in 1..Cardinality({j \in 1..Len(parts.xs) : IsStr(parts.xs[j])})
                  |-> LET idx == CHOOSE j \in 1..Len(parts.xs) :
                                   /\ IsStr(parts.xs[j])
                                   /\ Cardinality({m \in 1..j : IsStr(parts.xs[m])}) = i
                      IN parts.xs[idx].a]))
         ELSE JStr(<<>>)
    ELSE IF IsStr(c) THEN c
    ELSE IF IsDict(c) /\ HasKey(c, "text") THEN Get(c, "text")
    ELSE JStr(<<>>)

normalize_message(msg) ==
    LET role == MessageRole(msg)
        content == Or(MessageContent(msg), JStr(<<>>))
        raw == RawTimestamp(msg)
        ts == normalize_timestamp(raw.v)
    IN  IF role.raised \/ raw.raised \/ ~IsStr(content) \/ ts.raised THEN Raised
        ELSE [raised |-> FALSE, role |-> role.v,
              content |-> Strip(content.a), ts |-> ts.ts]

(***************************************************************************)
(* SpecNormalize: normalize_message applied to one raw message record.     *)
(***************************************************************************)
AuthorShapes ==
    {JAbsent, JNull, JObj(<<>>), JObj(<<JPair("role", JStr(<<"user">>))>>),
     JObj(<<JPair("role", JNull)>>), JStr(<<"user">>), JArr(<<>>), JNum(0, 7)}

RoleShapes == {JAbsent, JStr(<<"system">>), JStr(<<>>)}

ContentShapes ==
    {JAbsent, JNull, JStr(<<"h", "i">>), JStr(<<" ", "\n">>), JNum(0, 5),
     JArr(<<JStr(<<"h">>)>>), JObj(<<>>),
     JObj(<<JPair("parts", JArr(<<JStr(<<"a">>), JNum(0, 1), JStr(<<"b">>)>>))>>),
     JObj(<<JPair("parts", JStr(<<"a", "b">>))>>),
     JObj(<<JPair("text", JStr(<<" ", "t">>))>>),
     JObj(<<JPair("text", JNum(0, 5))>>),
     JObj(<<JPair("text", JNull)>>)}

TimeShapes ==
    {JAbsent, JNull, JNum(0, 0), JNum(1, 700000000), JNum(1700, 0),
     JNum(1700, 999), JStr(<<"1", "2">>), JStr(<<"a">>), JStr(<<"nan">>),
     JInf, JArr(<<JNum(0, 1)>>)}

MetaShapes ==
    {JAbsent, JNull, JStr(<<"x">>),
     JObj(<<JPair("timestamp", JNum(0, 5))>>),
     JObj(<<JPair("timestamp_", JNum(0, 6))>>)}

\* A dict of the fields that are present.
MkMsg(author, role, content, create_time, metadata) ==
    JObj(SelectSeq(<<JPair("author", author), JPair("role", role),
                     JPair("content", content),
                     JPair("create_time", create_time),
                     JPair("metadata", metadata)>>,
                   LAMBDA p : p.xs[1].k # "absent"))

RawMessages ==
    {MkMsg(au, ro, co, ct, me) :
        au \in AuthorShapes, ro \in RoleShapes, co \in ContentShapes,
        ct \in TimeShapes, me \in MetaShapes}

NoOut == [raised |-> FALSE, role |-> JNull, content |-> <<>>, ts |-> 0]

n_Idle == n_pc = "idle" /\ n_msg = JNull /\ n_out = NoOut

InitNormalize ==
    /\ n_pc = "init"
    /\ n_msg \in RawMessages
    /\ n_out = NoOut

NormalizeMessage ==
    /\ n_pc = "init"
    /\ UNCHANGED <<l_vars, s_vars, a_vars>>
    /\ n_out' = normalize_message(n_msg)
    /\ n_pc' = "done"
    /\ UNCHANGED n_msg

(***************************************************************************)
(* Conversations.  A mapping is kept as its keys in dict order (ids) and   *)
(* three functions of the key; an identifier that is not a key ("x") is a  *)
(* dangling reference, NoneId is Python's None.  A flat conversation has   *)
(* no mapping and a list of raw messages.                                  *)
(***************************************************************************)
NoneId == "None"

NodeIds == <<"a", "b", "c">>

NodeSet == Range(NodeIds)

DanglingId == "x"

InMapping(conv, id) == id \in Range(conv.ids)

\* mapping.get(id) or {} -> .get("message"): None for an absent node.
NodeMessage(conv, id) == IF InMapping(conv, id) THEN conv.message[id] ELSE JNull

NodeParent(conv, id) == IF InMapping(conv, id) THEN conv.parent[id] ELSE NoneId

NodeChildren(conv, id) == IF InMapping(conv, id) THEN conv.children[id] ELSE <<>>

\* get_node_message_timestamp: [raised, ts].
get_node_message_timestamp(conv, id) ==
    LET msg == NodeMessage(conv, id) IN
    IF ~Truthy(msg) THEN [raised |-> FALSE, ts |-> 0]
    ELSE IF ~IsDict(msg) THEN [raised |-> TRUE, ts |-> 0]
    ELSE LET raw == RawTimestamp(msg) IN
         IF raw.raised THEN [raised |-> TRUE, ts |-> 0]
         ELSE normalize_timestamp(raw.v)

\* path_to_messages: [raised, msgs].
RECURSIVE path_to_messages(_, _)
path_to_messages(conv, path_ids) ==
    IF path_ids = <<>> THEN [raised |-> FALSE, msgs |-> <<>>]
    ELSE LET msg == NodeMessage(conv, Head(path_ids))
             rest == path_to_messages(conv, Tail(path_ids))
         IN  IF ~Truthy(msg) THEN rest
             ELSE IF ~IsDict(msg) THEN [raised |-> TRUE, msgs |-> <<>>]
             ELSE LET m == normalize_message(msg) IN
                  IF m.raised \/ rest.raised THEN [raised |-> TRUE, msgs |-> <<>>]
                  ELSE IF m.content # <<>>
                       THEN [raised |-> FALSE, msgs |-> <<m>> \o rest.msgs]
                       ELSE rest

\* lines 110-117: the first key whose parent is None or not a key, else the
\* first key.
FindRoot(conv) ==
    LET roots == {i \in 1..Len(conv.ids) :
                     LET p == conv.parent[conv.ids[i]] IN
                     p = NoneId \/ ~InMapping(conv, p)}
    IN  IF roots = {} THEN conv.ids[1]
        ELSE conv.ids[CHOOSE i \in roots : \A j \in roots : i <= j]

\* Reconcile with "<=" for "<": a tie goes to the latest branch.
Reconcile_TieToFallback(primary, fallback) ==
    IF primary = <<>> THEN fallback
    ELSE IF Len(primary) <= Len(fallback) THEN fallback
    ELSE primary

\* lines 158-162
Reconcile(primary, fallback) ==
    IF primary = <<>> THEN fallback
    ELSE IF Len(primary) < Len(fallback) THEN fallback
    ELSE primary

\* lines 179-180: the flat form, [raised, msgs].
RECURSIVE NormalizeAll(_)
NormalizeAll(raw_msgs) ==
    IF raw_msgs = <<>> THEN [raised |-> FALSE, msgs |-> <<>>]
    ELSE LET m == IF IsDict(Head(raw_msgs)) THEN normalize_message(Head(raw_msgs))
                  ELSE Raised
             rest == NormalizeAll(Tail(raw_msgs))
         IN  IF m.raised \/ rest.raised THEN [raised |-> TRUE, msgs |-> <<>>]
             ELSE [raised |-> FALSE, msgs |-> <<m>> \o rest.msgs]

\* lines 181-185: a conversation is yielded when it has messages.
YieldConversation(msgs) ==
    IF msgs # <<>> THEN <<[title |-> "Conversation", messages |-> msgs]>>
    ELSE <<>>

(***************************************************************************)
(* SpecLinearize: parse_openai_conversations on one conversation, with the *)
(* loops of linearize_conversation and the recursion of                    *)
(* get_latest_subtree_timestamp taken one iteration / one call at a time.  *)
(*   l_node     node_id of the running loop                                *)
(*   l_ids      ids of collect_path_from_current_node, l_seen its seen     *)
(*   l_path     ids of collect_latest_branch_path, l_visited its visited   *)
(*   l_scan     the for loop over children: index, next_id, best_ts        *)
(*   l_frames   the Python call stack of get_latest_subtree_timestamp:     *)
(*              per active call its node_id, child index and best_ts       *)
(*   l_ret      a call being made, or a value being returned               *)
(*   l_cache, l_stack   the cache dict and the stack set of the code       *)
(*   l_steps    the number of iterations and calls taken so far            *)
(***************************************************************************)
NoRet == [st |-> "none", arg |-> NoneId, val |-> 0]

CallRet(id) == [st |-> "call", arg |-> id, val |-> 0]

ValRet(v) == [st |-> "ret", arg |-> NoneId, val |-> v]

NoScan == [i |-> 0, next_id |-> NoneId, best_ts |-> -1]

NoResult == [raised |-> FALSE, yielded |-> <<>>]

l_Locals ==
    /\ l_node = NoneId /\ l_ids = <<>> /\ l_seen = {} /\ l_root = NoneId
    /\ l_path = <<>> /\ l_visited = {} /\ l_cache = <<>> /\ l_stack = {}
    /\ l_frames = <<>> /\ l_ret = NoRet /\ l_scan = NoScan /\ l_steps = 0
    /\ l_primary = <<>> /\ l_fallback = <<>> /\ l_out = NoResult
    /\ l_result = <<>>

\* The other components are not running.
l_Others == UNCHANGED <<n_vars, s_vars, a_vars>>

\* An uncaught exception leaves parse_openai_conversations.
l_Raise ==
    /\ l_pc' = "raised"
    /\ l_out' = [raised |-> TRUE, yielded |-> <<>>]

\* lines 175-180 and 88-98: the flat form is normalized at once; the
\* branching form enters collect_path_from_current_node.
ParseStart ==
    /\ l_pc = "start"
    /\ l_steps' = l_steps + 1
    /\ l_Others
    /\ IF l_conv.ids # <<>>
       THEN /\ l_pc' = "walk"
            /\ l_node' = IF InMapping(l_conv, l_conv.current_node)
                         THEN l_conv.current_node ELSE NoneId
            /\ UNCHANGED l_out
       ELSE LET r == NormalizeAll(l_conv.messages) IN
            IF r.raised THEN l_Raise /\ UNCHANGED l_node
            ELSE /\ l_pc' = "done"
                 /\ l_out' = [raised |-> FALSE, yielded |-> YieldConversation(r.msgs)]
                 /\ UNCHANGED l_node
    /\ UNCHANGED <<l_conv, l_ids, l_seen, l_root, l_path, l_visited, l_cache,
                   l_stack, l_frames, l_ret, l_scan, l_primary, l_fallback,
                   l_result>>

\* WalkContinues without the seen set.
WalkContinues_NoSeen == l_node # NoneId /\ InMapping(l_conv, l_node)

\* line 99: while node_id and node_id not in seen and node_id in mapping
WalkContinues ==
    l_node # NoneId /\ l_node \notin l_seen /\ InMapping(l_conv, l_node)

\* lines 99-102: one iteration of the walk to the parent.
WalkStep ==
    /\ l_pc = "walk"
    /\ WalkContinues
    /\ l_seen' = l_seen \cup {l_node}
    /\ l_ids' = Append(l_ids, l_node)
    /\ l_node' = NodeParent(l_conv, l_node)
    /\ l_steps' = l_steps + 1
    /\ l_Others
    /\ UNCHANGED <<l_pc, l_conv, l_root, l_path, l_visited, l_cache, l_stack,
                   l_frames, l_ret, l_scan, l_primary, l_fallback, l_out,
                   l_result>>

\* lines 103-104, 156 and 107-122: the walk is over; its ids are reversed and
\* converted to the primary messages, and collect_latest_branch_path starts
\* at the root.
WalkEnd ==
    /\ l_pc = "walk"
    /\ ~WalkContinues
    /\ l_steps' = l_steps + 1
    /\ l_Others
    /\ l_ids' = Reverse(l_ids)
    /\ LET p == path_to_messages(l_conv, Reverse(l_ids)) IN
       IF p.raised
       THEN /\ l_Raise
            /\ UNCHANGED <<l_primary, l_root, l_node>>
       ELSE /\ l_primary' = p.msgs
            /\ l_root' = FindRoot(l_conv)
            /\ l_node' = FindRoot(l_conv)
            /\ l_pc' = "descend"
            /\ UNCHANGED l_out
    /\ UNCHANGED <<l_conv, l_seen, l_path, l_visited, l_cache, l_stack,
                   l_frames, l_ret, l_scan, l_fallback, l_result>>

\* line 123: while node_id and node_id not in visited and node_id in mapping
DescentContinues ==
    l_node # NoneId /\ l_node \notin l_visited /\ InMapping(l_conv, l_node)

\* lines 123-131: one node of the descent is visited; with children, the for
\* loop over them starts.
DescendStep ==
    /\ l_pc = "descend"
    /\ l_steps' = l_steps + 1
    /\ l_Others
    /\ IF DescentContinues
       THEN /\ l_visited' = l_visited \cup {l_node}
            /\ l_path' = Append(l_path, l_node)
            /\ IF NodeChildren(l_conv, l_node) = <<>>
               THEN l_pc' = "finish" /\ UNCHANGED l_scan
               ELSE l_pc' = "scan" /\ l_scan' = [NoScan EXCEPT !.i = 1]
       ELSE /\ l_pc' = "finish"
            /\ UNCHANGED <<l_visited, l_path, l_scan>>
    /\ UNCHANGED <<l_conv, l_node, l_ids, l_seen, l_root, l_cache, l_stack,
                   l_frames, l_ret, l_primary, l_fallback, l_out, l_result>>

\* lines 132-135 and 139-141: the next child of the for loop: one that is not
\* a key is skipped, another one is handed to get_latest_subtree_timestamp;
\* after the last child the descent steps into next_id, or breaks.
ScanChild ==
    /\ l_pc = "scan"
    /\ l_steps' = l_steps + 1
    /\ l_Others
    /\ LET children == NodeChildren(l_conv, l_node) IN
       IF l_scan.i > Len(children)
       THEN /\ IF l_scan.next_id = NoneId
               THEN l_pc' = "finish" /\ UNCHANGED l_node
               ELSE l_pc' = "descend" /\ l_node' = l_scan.next_id
            /\ UNCHANGED <<l_scan, l_ret>>
       ELSE IF ~InMapping(l_conv, children[l_scan.i])
            THEN /\ l_scan' = [l_scan EXCEPT !.i = @ + 1]
                 /\ UNCHANGED <<l_pc, l_node, l_ret>>
            ELSE /\ l_pc' = "sub"
                 /\ l_ret' = CallRet(children[l_scan.i])
                 /\ UNCHANGED <<l_scan, l_node>>
    /\ UNCHANGED <<l_conv, l_ids, l_seen, l_root, l_path, l_visited, l_cache,
                   l_stack, l_frames, l_primary, l_fallback, l_out, l_result>>

\* lines 70-78: a call of get_latest_subtree_timestamp is entered: it returns
\* at once for an unknown, a cached or an in-progress node, and otherwise
\* opens a frame.
SubEnterGuard == l_pc = "sub" /\ l_ret.st = "call"

SubEnter ==
    /\ SubEnterGuard
    /\ l_steps' = l_steps + 1
    /\ l_Others
    /\ LET id == l_ret.arg
           own == get_node_message_timestamp(l_conv, id)
       IN  IF id = NoneId \/ ~InMapping(l_conv, id)
           THEN /\ l_ret' = ValRet(0)
                /\ UNCHANGED <<l_pc, l_out, l_stack, l_frames>>
           ELSE IF id \in DOMAIN l_cache
           THEN /\ l_ret' = ValRet(l_cache[id])
                /\ UNCHANGED <<l_pc, l_out, l_stack, l_frames>>
           ELSE IF own.raised
           THEN /\ l_Raise
                /\ UNCHANGED <<l_ret, l_stack, l_frames>>
           ELSE IF id \in l_stack
           THEN /\ l_ret' = ValRet(own.ts)
                /\ UNCHANGED <<l_pc, l_out, l_stack, l_frames>>
           ELSE /\ l_stack' = l_stack \cup {id}
                /\ l_frames' = Append(l_frames, [node |-> id, i |-> 1, best |-> own.ts])
                /\ l_ret' = NoRet
                /\ UNCHANGED <<l_pc, l_out>>
    /\ UNCHANGED <<l_conv, l_node, l_ids, l_seen, l_root, l_path, l_visited,
                   l_cache, l_scan, l_primary, l_fallback, l_result>>

\* lines 79-80 and 83-85: the innermost call takes its next child, or, past
\* the last one, leaves the stack, fills the cache and returns.
SubNextGuard == l_pc = "sub" /\ l_ret.st = "none" /\ l_frames # <<>>

SubNext ==
    /\ SubNextGuard
    /\ l_steps' = l_steps + 1
    /\ l_Others
    /\ LET f == l_frames[Len(l_frames)]
           children == NodeChildren(l_conv, f.node)
       IN  IF f.i <= Len(children)
           THEN /\ l_ret' = CallRet(children[f.i])
                /\ UNCHANGED <<l_frames, l_stack, l_cache>>
           ELSE /\ l_stack' = l_stack \ {f.node}
                /\ l_cache' = (f.node :> f.best) @@ l_cache
                /\ l_frames' = Take(l_frames, Len(l_frames) - 1)
                /\ l_ret' = ValRet(f.best)
    /\ UNCHANGED <<l_pc, l_conv, l_node, l_ids, l_seen, l_root, l_path,
                   l_visited, l_scan, l_primary, l_fallback, l_out, l_result>>

\* ScanTake with ">=" for ">": the last child of the greatest timestamp.
ScanTake_LastOnTie(scan, child_id, child_ts) ==
    IF scan.next_id = NoneId \/ child_ts >= scan.best_ts
    THEN [i |-> scan.i + 1, next_id |-> child_id, best_ts |-> child_ts]
    ELSE [scan EXCEPT !.i = @ + 1]

\* lines 136-138: the for loop of the descent keeps the first child of the
\* greatest subtree timestamp.
ScanTake(scan, child_id, child_ts) ==
    IF scan.next_id = NoneId \/ child_ts > scan.best_ts
    THEN [i |-> scan.i + 1, next_id |-> child_id, best_ts |-> child_ts]
    ELSE [scan EXCEPT !.i = @ + 1]

\* lines 80-82 and 135-138: a returned value reaches its caller: the calling
\* frame keeps the maximum, the descent's for loop compares it.
SubReturnGuard == l_pc = "sub" /\ l_ret.st = "ret"

SubReturn ==
    /\ SubReturnGuard
    /\ l_steps' = l_steps + 1
    /\ l_Others
    /\ l_ret' = NoRet
    /\ IF l_frames # <<>>
       THEN /\ l_frames' = [l_frames EXCEPT ![Len(l_frames)] =
                   [@ EXCEPT !.i = @ + 1,
                             !.best = IF l_ret.val > @ THEN l_ret.val ELSE @]]
            /\ UNCHANGED <<l_pc, l_scan>>
       ELSE /\ l_scan' = ScanTake(l_scan,
                   NodeChildren(l_conv, l_node)[l_scan.i], l_ret.val)
            /\ l_pc' = "scan"
            /\ UNCHANGED l_frames
    /\ UNCHANGED <<l_conv, l_node, l_ids, l_seen, l_root, l_path, l_visited,
                   l_cache, l_stack, l_primary, l_fallback, l_out, l_result>>

\* lines 157-162 and 181-185: the latest-branch path is converted, the two
\* candidates are reconciled, and the conversation is yielded.
Finish ==
    /\ l_pc = "finish"
    /\ l_steps' = l_steps + 1
    /\ l_Others
    /\ LET f == path_to_messages(l_conv, l_path) IN
       IF f.raised
       THEN l_Raise /\ UNCHANGED <<l_fallback, l_result>>
       ELSE /\ l_fallback' = f.msgs
            /\ l_result' = Reconcile(l_primary, f.msgs)
            /\ l_out' = [raised |-> FALSE,
                         yielded |-> YieldConversation(Reconcile(l_primary, f.msgs))]
            /\ l_pc' = "done"
    /\ UNCHANGED <<l_conv, l_node, l_ids, l_seen, l_root, l_path, l_visited,
                   l_cache, l_stack, l_frames, l_ret, l_scan, l_primary>>

(***************************************************************************)
(* The conversations SpecLinearize starts from.                            *)
(***************************************************************************)
MaxTs == 2

MaxChildren == 2

MaxFlat == 2

NodeMsg(t) ==
    JObj(<<JPair("content", JStr(<<"h">>)), JPair("create_time", JNum(0, t))>>)

\* Content that trims to nothing.
BlankMsg(t) ==
    JObj(<<JPair("content", JStr(<<" ">>)), JPair("create_time", JNum(0, t))>>)

\* metadata is a string: msg.get("metadata").get raises AttributeError.
BadMetaMsg == JObj(<<JPair("content", JStr(<<"h">>)), JPair("metadata", JStr(<<"x">>))>>)

TreeMsgs == {BlankMsg(MaxTs)} \cup {NodeMsg(t) : t \in 1..MaxTs}

\* The first key may be the export's message-less root node.
TreeMessages ==
    {msg \in [NodeSet -> TreeMsgs \cup {JNull}] :
        \A n \in NodeSet : msg[n] = JNull => n = NodeIds[1]}

NoDup(s) == \A i, j \in 1..Len(s) : s[i] = s[j] => i = j

ChildLists == {s \in SeqsUpTo(NodeSet \cup {DanglingId}, MaxChildren) : NoDup(s)}

RECURSIVE SumLen(_, _)
SumLen(f, S) ==
    IF S = {} THEN 0
    ELSE LET x == CHOOSE y \in S : TRUE IN Len(f[x]) + SumLen(f, S \ {x})

\* Child lists with at most as many entries as there are nodes: the trees,
\* the forests with dangling children, and the graphs with one extra edge
\* (a shared child, a cycle, a self-reference).
ChildGraphs ==
    {ch \in [NodeSet -> ChildLists] : SumLen(ch, NodeSet) <= Len(NodeIds)}

\* The parent each node names when the export is consistent: the first node
\* that lists it as a child.
ParentsOf(ch) ==
    [n \in NodeSet |->
        LET listers == {i \in 1..Len(NodeIds) : n \in Range(ch[NodeIds[i]])} IN
        IF listers = {} THEN NoneId
        ELSE NodeIds[CHOOSE i \in listers : \A j \in listers : i <= j]]

MappingConv(parent, children, message, cur) ==
    [ids |-> NodeIds, parent |-> parent, children |-> children,
     message |-> message, current_node |-> cur, messages |-> <<>>]

\* Consistent exports over every child graph, the current node a leaf-most key.
BranchConvs ==
    {MappingConv(ParentsOf(ch), ch, msg, "c") :
        ch \in ChildGraphs, msg \in TreeMessages}

ChainChildren == [n \in NodeSet |-> IF n = "a" THEN <<"b">> ELSE IF n = "b" THEN <<"c">> ELSE <<>>]

\* Every parent assignment (cycles, self-references, dangling and missing
\* parents) and every current_node, over a chain of children.
ParentConvs ==
    {MappingConv(p, ChainChildren, msg, cur) :
        p \in [NodeSet -> NodeSet \cup {NoneId, DanglingId}],
        msg \in [NodeSet -> {NodeMsg(1), BlankMsg(1)}]
                  \cup {[n \in NodeSet |-> IF n = "b" THEN BadMetaMsg ELSE NodeMsg(1)]},
        cur \in NodeSet \cup {NoneId, DanglingId}}

DeepIds == <<"a", "b", "c", "d">>

\* Four nodes: two siblings under the message-less root, a grandchild under
\* one of them, every assignment of timestamps.
DeepConvs ==
    {[ids |-> DeepIds,
      parent |-> [n \in Range(DeepIds) |->
                    IF n = "a" THEN NoneId ELSE IF n = "d" THEN mid ELSE "a"],
      children |-> [n \in Range(DeepIds) |->
                    IF n = "a" THEN <<"b", "c">> ELSE IF n = mid THEN <<"d">> ELSE <<>>],
      message |-> [n \in Range(DeepIds) |-> IF n = "a" THEN JNull ELSE NodeMsg(ts[n])],
      current_node |-> "d", messages |-> <<>>] :
        mid \in {"b", "c"}, ts \in [{"b", "c", "d"} -> 1..(MaxTs + 1)]}

FlatConv(msgs) ==
    [ids |-> <<>>, parent |-> <<>>, children |-> <<>>, message |-> <<>>,
     current_node |-> NoneId, messages |-> msgs]

FlatConvs ==
    {FlatConv(msgs) :
        msgs \in SeqsUpTo({NodeMsg(1), BlankMsg(1), BadMetaMsg, JStr(<<"h">>)}, MaxFlat)}

l_Idle == l_pc = "idle" /\ l_conv = FlatConv(<<>>) /\ l_Locals

InitLinearize ==
    /\ l_pc = "start"
    /\ l_conv \in BranchConvs \cup ParentConvs \cup DeepConvs \cup FlatConvs
    /\ l_Locals

\* Some action of NextLinearize has its guard true: outside the recursion
\* every program point has an action that handles both outcomes of its test.
CanStep ==
    \/ l_pc \in {"start", "walk", "descend", "scan", "finish"}
    \/ SubEnterGuard
    \/ SubNextGuard
    \/ SubReturnGuard

NextLinearize ==
    \/ ParseStart
    \/ WalkStep
    \/ WalkEnd
    \/ DescendStep
    \/ ScanChild
    \/ SubEnter
    \/ SubNext
    \/ SubReturn
    \/ Finish

(***************************************************************************)
(* Claims about the linearizer (SpecLinearize).                            *)
(***************************************************************************)
IsMappingConv == l_conv.ids # <<>>

\* C1: linearize_conversation returns the latest-branch candidate when the
\* active-path candidate has no messages or is strictly shorter, and the
\* active-path candidate itself, same messages in the same order, in every
\* other case, ties included.
C1_Reconcile ==
    (l_pc = "done" /\ IsMappingConv) =>
        /\ l_primary = path_to_messages(l_conv, l_ids).msgs
        /\ l_fallback = path_to_messages(l_conv, l_path).msgs
        /\ l_primary = <<>> => l_result = l_fallback
        /\ (l_primary # <<>> /\ Len(l_fallback) > Len(l_primary)) => l_result = l_fallback
        /\ (l_primary # <<>> /\ Len(l_primary) >= Len(l_fallback)) => l_result = l_primary

\* A tie between two different candidates went to the active path.
C1_Witness ==
    /\ l_pc = "done" /\ IsMappingConv
    /\ l_primary # <<>> /\ Len(l_primary) = Len(l_fallback)
    /\ l_primary # l_fallback
    /\ l_result = l_primary

\* The steps a run can take: the walk and the descent visit each of the N
\* nodes once, and every child entry is scanned once by the descent and
\* called once by the one body of its node.
StepBound(conv) ==
    4 * Len(conv.ids) + 6 * SumLen(conv.children, Range(conv.ids)) + 4

FrameNodes == [i \in 1..Len(l_frames) |-> l_frames[i].node]

\* The finished walk is the chain of parents from current_node, root first,
\* and it stopped at a parent that is None, dangling or already collected.
WalkIsParentChain ==
    l_ids # <<>> =>
        /\ l_ids[Len(l_ids)] = l_conv.current_node
        /\ \A i \in 1..(Len(l_ids) - 1) : l_ids[i] = l_conv.parent[l_ids[i + 1]]
        /\ LET p == l_conv.parent[l_ids[1]] IN
           p = NoneId \/ ~InMapping(l_conv, p) \/ p \in Range(l_ids)

\* C2: linearize_conversation terminates on every mapping, cyclic ones
\* included: the number of loop iterations and calls is bounded by the size
\* of the mapping, a step is always possible until the function has
\* returned or raised, the active path, the latest-branch path and the chain
\* of active recursive calls never hold a node twice, and the walk stops at
\* the first repeated, parentless or dangling identifier.
C2_Terminates ==
    /\ l_steps <= StepBound(l_conv)
    /\ l_pc \in {"done", "raised"} \/ CanStep
    /\ NoDup(l_ids) /\ NoDup(l_path) /\ NoDup(FrameNodes)
    /\ Range(FrameNodes) = l_stack
    /\ (IsMappingConv /\ l_pc \in {"descend", "scan", "sub", "finish", "done"})
          => WalkIsParentChain

\* The walk has stopped at a repeated identifier, and the recursion is
\* calling a node that is still in progress.
C2_Witness ==
    /\ l_pc = "sub" /\ l_ret.st = "call" /\ l_ret.arg \in l_stack
    /\ l_ids # <<>> /\ l_conv.parent[l_ids[1]] \in Range(l_ids)

\* C8: every message of every yielded Conversation has non-empty content,
\* in the branching and in the flat form.
C8_NonEmptyContent ==
    \A i \in 1..Len(l_out.yielded) :
        \A j \in 1..Len(l_out.yielded[i].messages) :
            l_out.yielded[i].messages[j].content # <<>>

Kids(conv, n) == {c \in Range(NodeChildren(conv, n)) : InMapping(conv, c)}

RECURSIVE ReachSet(_, _)
ReachSet(conv, S) ==
    LET T == S \cup UNION {Kids(conv, n) : n \in S} IN
    IF T = S THEN S ELSE ReachSet(conv, T)

Descendants(conv, n) == ReachSet(conv, Kids(conv, n))

Acyclic(conv) == \A n \in Range(conv.ids) : n \notin Descendants(conv, n)

SetMax(S) == CHOOSE x \in S : \A y \in S : y <= x

\* The greatest message timestamp over a node and all of its descendants.
SubtreeMax(conv, n) ==
    SetMax({get_node_message_timestamp(conv, m).ts : m \in {n} \cup Descendants(conv, n)})

\* The child the descent must step into: the first one, in list order, whose
\* value is the greatest among the children that are keys.
FirstGreatest(children, value(_)) ==
    LET idx == {i \in 1..Len(children) : InMapping(l_conv, children[i])} IN
    IF idx = {} THEN NoneId
    ELSE children[CHOOSE i \in idx :
            /\ \A j \in idx : value(children[j]) <= value(children[i])
            /\ \A j \in idx : j < i => value(children[j]) < value(children[i])]

\* C9: every step of the latest-branch descent goes to the first child of
\* the greatest memoized subtree timestamp; on an acyclic mapping every
\* memoized value is the greatest message timestamp of the node and its
\* descendants, and the path holds a node that carries the greatest
\* timestamp of the root's whole tree.
C9_LatestBranch ==
    (l_pc = "done" /\ IsMappingConv) =>
        /\ \A i \in 1..(Len(l_path) - 1) :
              LET Memo(c) == l_cache[c] IN
              l_path[i + 1] = FirstGreatest(NodeChildren(l_conv, l_path[i]), Memo)
        /\ Acyclic(l_conv) =>
              /\ \A n \in DOMAIN l_cache : l_cache[n] = SubtreeMax(l_conv, n)
              /\ l_path[1] = l_root
              /\ \E i \in 1..Len(l_path) :
                    get_node_message_timestamp(l_conv, l_path[i]).ts
                        = SubtreeMax(l_conv, l_root)

\* The descent passed over a first child for a later one whose own timestamp
\* is smaller but whose subtree holds the latest message.
C9_Witness ==
    /\ l_pc = "done" /\ IsMappingConv /\ Acyclic(l_conv)
    /\ Len(l_path) = 3
    /\ LET ch == NodeChildren(l_conv, l_path[1]) IN
       /\ Len(ch) = 2 /\ l_path[2] = ch[2] /\ InMapping(l_conv, ch[1])
       /\ get_node_message_timestamp(l_conv, ch[2]).ts
             < get_node_message_timestamp(l_conv, ch[1]).ts

(***************************************************************************)
(* JSON text.  A document is a sequence of characters; a word between two  *)
(* quotes is kept as one character.  ParseValue is JSONDecoder.raw_decode  *)
(* at a position: the value and the position after it, or ok = FALSE where *)
(* Python raises JSONDecodeError (a value that is cut short included).     *)
(***************************************************************************)
Quote == "\""

At(s, i) == IF i >= 1 /\ i <= Len(s) THEN s[i] ELSE ""

SetMin(S) == CHOOSE x \in S : \A y \in S : x <= y

\* The first position from i on that holds no whitespace.
SkipWs(s, i) ==
    LET J == {j \in i..Len(s) : s[j] \notin Whitespace} IN
    IF J = {} THEN Len(s) + 1 ELSE SetMin(J)

ParseFail == [ok |-> FALSE, v |-> JNull, e |-> 0]

\* py_scanstring: up to the closing quote.
ParseString(s, i) ==
    LET J == {j \in (i + 1)..Len(s) : s[j] = Quote} IN
    IF J = {} THEN ParseFail
    ELSE [ok |-> TRUE, v |-> JStr(SubSeq(s, i + 1, SetMin(J) - 1)), e |-> SetMin(J) + 1]

\* NUMBER_RE: 0, or a run of digits that does not start with 0.
ParseNumber(s, i) ==
    LET J == {j \in i..Len(s) : s[j] \notin Digits}
        e == IF s[i] = "0" THEN i + 1
             ELSE IF J = {} THEN Len(s) + 1 ELSE SetMin(J)
    IN  [ok |-> TRUE, v |-> JNum(0, DigitsVal(SubSeq(s, i, e - 1))), e |-> e]

RECURSIVE ParseValue(_, _), ParseElements(_, _, _), ParseMembers(_, _, _)

\* scan_once
ParseValue(s, i) ==
    LET c == At(s, i) IN
    IF c = Quote THEN ParseString(s, i)
    ELSE IF c \in Digits THEN ParseNumber(s, i)
    ELSE IF c = "[" THEN
        LET j == SkipWs(s, i + 1) IN
        IF At(s, j) = "]" THEN [ok |-> TRUE, v |-> JArr(<<>>), e |-> j + 1]
        ELSE ParseElements(s, j, <<>>)
    ELSE IF c = "{" THEN
        LET j == SkipWs(s, i + 1) IN
        IF At(s, j) = "}" THEN [ok |-> TRUE, v |-> JObj(<<>>), e |-> j + 1]
        ELSE ParseMembers(s, j, <<>>)
    ELSE ParseFail

\* JSONArray: a value, then "]" or "," and the next value.
ParseElements(s, i, acc) ==
    LET r == ParseValue(s, i) IN
    IF ~r.ok THEN ParseFail
    ELSE LET j == SkipWs(s, r.e) IN
         IF At(s, j) = "]"
         THEN [ok |-> TRUE, v |-> JArr(Append(acc, r.v)), e |-> j + 1]
         ELSE IF At(s, j) = ","
         THEN ParseElements(s, SkipWs(s, j + 1), Append(acc, r.v))
         ELSE ParseFail

\* JSONObject: "key" : value, then "}" or "," and the next member.
ParseMembers(s, i, acc) ==
    IF At(s, i) # Quote THEN ParseFail
    ELSE LET key == ParseString(s, i) IN
         IF ~key.ok THEN ParseFail
         ELSE LET j == SkipWs(s, key.e) IN
              IF At(s, j) # ":" THEN ParseFail
              ELSE LET r == ParseValue(s, SkipWs(s, j + 1)) IN
                   IF ~r.ok THEN ParseFail
                   ELSE LET m == SkipWs(s, r.e)
                            pair == [k |-> "pair", a |-> key.v.a, h |-> 0,
                                     n |-> 0, xs |-> <<r.v>>]
                        IN  IF At(s, m) = "}"
                            THEN [ok |-> TRUE, v |-> JObj(Append(acc, pair)), e |-> m + 1]
                            ELSE IF At(s, m) = ","
                            THEN ParseMembers(s, SkipWs(s, m + 1), Append(acc, pair))
                            ELSE ParseFail

\* decoder.raw_decode(buf): the value at the start of buf.
raw_decode(buf) == ParseValue(buf, 1)

\* json.load: one value with nothing but whitespace around it.
json_load(doc) ==
    LET r == ParseValue(doc, SkipWs(doc, 1)) IN
    IF r.ok /\ SkipWs(doc, r.e) = Len(doc) + 1 THEN r ELSE ParseFail

(***************************************************************************)
(* parse_openai_conversations, lines 166-176: the conversation objects the *)
(* for loop is run on, up to the first one that is no dict (conv.get       *)
(* raises AttributeError there).  What lines 176-185 make of each of them  *)
(* is SpecLinearize's subject.                                             *)
(***************************************************************************)
ConversationList(obj) ==
    IF IsList(obj) THEN obj.xs
    ELSE IF IsDict(obj) /\ IsList(Get(obj, "conversations"))
         THEN Get(obj, "conversations").xs
    ELSE IF IsDict(obj) /\ Truthy(Get(obj, "mapping")) THEN <<obj>>
    ELSE <<>>

parse_openai_conversations(obj) ==
    LET convs == ConversationList(obj)
        bad == {i \in 1..Len(convs) : ~IsDict(convs[i])}
    IN  IF bad = {} THEN [raised |-> FALSE, convs |-> convs]
        ELSE [raised |-> TRUE, convs |-> Take(convs, SetMin(bad) - 1)]

(***************************************************************************)
(* iter_json_array driven by load_conversations_stream and main's          *)
(* try / except.  s_doc is the input file, s_pos the file position, s_buf  *)
(* the generator's buffer, s_yielded the objects it has yielded and        *)
(* s_extracted the conversation objects handed on to write_by_day_raw      *)
(* (by the streaming pass and, after it raised, by the fallback).          *)
(* s_raised tells how the streaming pass ended: "no" (a return), "decode"  *)
(* (line 221 re-raises JSONDecodeError) or "consumer" (line 176 raises on  *)
(* an element while the generator is suspended at its yield).              *)
(***************************************************************************)
MaxChunk == 3

\* f.read(n): the next n characters, fewer at the end of the file.
ReadChunk(n) ==
    SubSeq(s_doc, s_pos + 1, IF s_pos + n <= Len(s_doc) THEN s_pos + n ELSE Len(s_doc))

\* buf.find("["): the first position of "[", 0 where Python has -1.
FindBracket(buf) ==
    LET J == {j \in 1..Len(buf) : buf[j] = "["} IN
    IF J = {} THEN 0 ELSE SetMin(J)

\* Variant: commas are not skipped.
SkipSeparators_NoComma(buf) == LStrip(buf)

\* lines 204-207: drop leading whitespace and commas.
RECURSIVE SkipSeparators(_)
SkipSeparators(buf) ==
    IF buf # <<>> /\ Head(buf) \in (Whitespace \cup {","})
    THEN SkipSeparators(Tail(buf)) ELSE buf

\* lines 193-201: one pass of the loop that looks for the array start.
FindArrayStart ==
    /\ s_pc = "find"
    /\ \E size \in 1..MaxChunk :
         LET chunk == ReadChunk(size)
             buf == s_buf \o chunk
             idx == FindBracket(buf)
         IN  IF chunk = <<>>
             THEN /\ s_pc' = "done"
                  /\ UNCHANGED <<s_pos, s_buf>>
             ELSE /\ s_pos' = s_pos + Len(chunk)
                  /\ IF idx # 0
                     THEN s_buf' = Drop(buf, idx) /\ s_pc' = "loop"
                     ELSE s_buf' = buf /\ s_pc' = "find"
    /\ UNCHANGED <<s_doc, s_elems, s_yielded, s_extracted, s_raised>>
    /\ UNCHANGED <<n_vars, l_vars, a_vars>>

\* lines 203-225 and 399-401: one pass of the element loop; a decoded
\* element is yielded and load_conversations_stream extracts from it.
StreamStep ==
    /\ s_pc = "loop"
    /\ \E size \in 1..MaxChunk :
         LET chunk == ReadChunk(size)
             buf == SkipSeparators(s_buf)
             r == raw_decode(buf)
             p == parse_openai_conversations(
                      IF IsDict(r.v) \/ IsList(r.v) THEN r.v ELSE JArr(<<>>))
         IN  IF buf = <<>>
             THEN /\ IF chunk = <<>>
                     THEN s_pc' = "done" /\ s_buf' = buf
                     ELSE s_pc' = "loop" /\ s_buf' = chunk
                  /\ s_pos' = s_pos + Len(chunk)
                  /\ UNCHANGED <<s_yielded, s_extracted, s_raised>>
             ELSE IF Head(buf) = "]"
             THEN /\ s_pc' = "done"
                  /\ s_buf' = buf
                  /\ UNCHANGED <<s_pos, s_yielded, s_extracted, s_raised>>
             ELSE IF ~r.ok
             THEN /\ IF chunk = <<>>
                     THEN s_pc' = "fallback" /\ s_raised' = "decode" /\ s_buf' = buf
                     ELSE s_pc' = "loop" /\ s_raised' = s_raised /\ s_buf' = buf \o chunk
                  /\ s_pos' = s_pos + Len(chunk)
                  /\ UNCHANGED <<s_yielded, s_extracted>>
             ELSE /\ s_buf' = Drop(buf, r.e - 1)
                  /\ s_yielded' = Append(s_yielded, r.v)
                  /\ s_extracted' = s_extracted \o p.convs
                  /\ IF p.raised
                     THEN s_pc' = "fallback" /\ s_raised' = "consumer"
                     ELSE s_pc' = "loop" /\ s_raised' = s_raised
                  /\ UNCHANGED s_pos
    /\ UNCHANGED <<s_doc, s_elems>>
    /\ UNCHANGED <<n_vars, l_vars, a_vars>>

\* main, lines 429-431, with load_conversations_fallback: after the streaming
\* pass raised, the whole file is decoded and extracted from.
Fallback ==
    /\ s_pc = "fallback"
    /\ LET data == json_load(s_doc)
           p == parse_openai_conversations(data.v)
       IN  IF ~data.ok
           THEN s_pc' = "fatal" /\ UNCHANGED s_extracted
           ELSE /\ s_extracted' = s_extracted \o p.convs
                /\ s_pc' = IF p.raised THEN "fatal" ELSE "done"
    /\ UNCHANGED <<s_doc, s_elems, s_pos, s_buf, s_yielded, s_raised>>
    /\ UNCHANGED <<n_vars, l_vars, a_vars>>

NextStream == FindArrayStart \/ StreamStep \/ Fallback

(***************************************************************************)
(* Input files.  An array file is made of elements, in a compact or a      *)
(* pretty layout, and cut at any position (a truncated export); s_elems    *)
(* keeps where each element lies in the file.  The object files are the    *)
(* top-level-object export shapes.                                         *)
(***************************************************************************)
MaxElems == 2

Q(word) == <<Quote, word, Quote>>

ElemEmpty == <<"{", "}">>

ElemBracket == <<"{">> \o Q("t") \o <<":">> \o Q("]") \o <<"}">>

ElemNumber == <<"{">> \o Q("n") \o <<":", "1", "2", "}">>

ElemList == <<"[", "{", "}", "]">>

ElemTexts == {ElemEmpty, ElemBracket, ElemNumber, ElemList}

Compact == [open |-> <<>>, sep |-> <<",">>, close |-> <<>>, trail |-> <<>>]

Pretty == [open |-> <<"\n">>, sep |-> <<",", "\n">>, close |-> <<"\n">>,
           trail |-> <<"\n">>]

Layouts == {Compact, Pretty}

RECURSIVE RenderElems(_, _, _, _)
RenderElems(texts, sep, doc, spans) ==
    IF texts = <<>> THEN [doc |-> doc, spans |-> spans]
    ELSE LET d1 == IF spans = <<>> THEN doc ELSE doc \o sep
             d2 == d1 \o Head(texts)
         IN  RenderElems(Tail(texts), sep, d2,
                 Append(spans, [text |-> Head(texts), first |-> Len(d1) + 1,
                                last |-> Len(d2)]))

ArrayFile(texts, layout) ==
    LET r == RenderElems(texts, layout.sep, <<"[">> \o layout.open, <<>>) IN
    [doc |-> r.doc \o layout.close \o <<"]">> \o layout.trail, spans |-> r.spans]

FlatConvText ==
    <<"{">> \o Q("messages") \o <<":", "[", "{">> \o Q("content") \o <<":">>
        \o Q("hi") \o <<"}", "]", "}">>

MappingConvText(node) ==
    <<"{">> \o Q("mapping") \o <<":", "{">> \o Q("a") \o <<":">> \o node \o <<"}", "}">>

NodeWithChildren == <<"{">> \o Q("children") \o <<":", "[">> \o Q("b") \o <<"]", "}">>

Wrapped(conv) == <<"{">> \o Q("conversations") \o <<":", "[">> \o conv \o <<"]", "}">>

TitledMapping ==
    <<"{">> \o Q("title") \o <<":">> \o Q("[") \o <<",">> \o Q("mapping")
        \o <<":", "{">> \o Q("a") \o <<":", "{", "}", "}", "}">>

ObjectFiles ==
    { Wrapped(FlatConvText),
      Wrapped(MappingConvText(ElemEmpty)),
      MappingConvText(ElemEmpty),
      MappingConvText(NodeWithChildren),
      TitledMapping }

s_Idle ==
    /\ s_pc = "idle" /\ s_doc = <<>> /\ s_pos = 0 /\ s_buf = <<>>
    /\ s_elems = [kind |-> "none", spans |-> <<>>]
    /\ s_yielded = <<>> /\ s_extracted = <<>> /\ s_raised = "no"

InitStream ==
    /\ s_pc = "find" /\ s_pos = 0 /\ s_buf = <<>>
    /\ s_yielded = <<>> /\ s_extracted = <<>> /\ s_raised = "no"
    /\ \/ \E texts \in SeqsUpTo(ElemTexts, MaxElems), layout \in Layouts :
            LET file == ArrayFile(texts, layout) IN
            \E cut \in 0..Len(file.doc) :
                /\ s_doc = Take(file.doc, cut)
                /\ s_elems = [kind |-> "array", spans |-> file.spans]
       \/ /\ s_doc \in ObjectFiles
          /\ s_elems = [kind |-> "object", spans |-> <<>>]

(***************************************************************************)
(* Claims on the streaming reader.                                         *)
(***************************************************************************)
StreamEnded == s_pc \in {"done", "fallback", "fatal"}

IsArrayFile == s_elems.kind = "array"

\* The elements that lie wholly in the file, decoded, in file order.
RECURSIVE DecodedElements(_)
DecodedElements(spans) ==
    IF spans = <<>> THEN <<>>
    ELSE IF Head(spans).last <= Len(s_doc)
         THEN <<raw_decode(Head(spans).text).v>> \o DecodedElements(Tail(spans))
         ELSE <<>>

\* The file ends inside an element: some but not all of its characters.
EndsInsideElement ==
    \E i \in 1..Len(s_elems.spans) :
        s_elems.spans[i].first <= Len(s_doc) /\ Len(s_doc) < s_elems.spans[i].last

IsPrefix(s, t) == Len(s) <= Len(t) /\ s = Take(t, Len(s))

\* C6: on a file that holds a top-level array, whatever the sizes of the
\* reads, the reader yields the array's elements each once and in order
\* (never anything else on the way); it ends by a return when the closing
\* bracket is met or the file ends between elements, and by a decode error
\* exactly when the file ends inside an element.
C6_StreamYieldsElements ==
    IsArrayFile =>
        /\ IsPrefix(s_yielded, DecodedElements(s_elems.spans))
        /\ s_raised # "consumer"
        /\ StreamEnded =>
             /\ s_yielded = DecodedElements(s_elems.spans)
             /\ (s_raised = "decode") <=> EndsInsideElement

C6_Witness ==
    /\ IsArrayFile /\ s_pc = "done" /\ s_raised = "no"
    /\ Len(s_yielded) = MaxElems
    /\ s_yielded[1] # s_yielded[2]
    /\ s_pos = Len(s_doc)

C6_WitnessTruncated ==
    /\ IsArrayFile /\ s_raised = "decode" /\ Len(s_yielded) = 1

TopLevelObject == json_load(s_doc).ok /\ IsDict(json_load(s_doc).v)

BulkConversations == parse_openai_conversations(json_load(s_doc).v).convs

\* C3: when the input file holds a top-level object, the streaming pass ends
\* in an error, the bulk fallback runs, and the run extracts exactly the
\* conversations a bulk parse of the file yields.
C3_ObjectFallsBack ==
    (TopLevelObject /\ s_pc \in {"done", "fatal"}) =>
        /\ s_raised # "no"
        /\ s_extracted = BulkConversations

(***************************************************************************)
(* Day / month / topic aggregation.  Timestamps are seconds of the year    *)
(* 1970 in UTC.  A date is a record [y, m, d]; the key "unknown" is the    *)
(* record Unknown.  An ISO time is a date with the seconds of its day, and *)
(* NoIso is the empty string to_iso gives for timestamp 0.                 *)
(***************************************************************************)
SecondsPerDay == 24 * 3600

MonthLengths == <<31, 28, 31, 30, 31, 30, 31, 31, 30, 31, 30, 31>>

Unknown == [y |-> 0, m |-> 0, d |-> 0]

NoIso == [date |-> Unknown, tod |-> 0]

\* datetime.fromtimestamp: the month and day of the days-th day of the year.
RECURSIVE CivilFromDays(_, _)
CivilFromDays(days, m) ==
    IF days < MonthLengths[m] THEN [y |-> 1970, m |-> m, d |-> days + 1]
    ELSE CivilFromDays(days - MonthLengths[m], m + 1)

\* datetime.timestamp: the days before a date.
RECURSIVE DaysBeforeMonth(_)
DaysBeforeMonth(m) == IF m = 1 THEN 0 ELSE MonthLengths[m - 1] + DaysBeforeMonth(m - 1)

to_iso(ts) ==
    IF ts = 0 THEN NoIso
    ELSE [date |-> CivilFromDays(ts \div SecondsPerDay, 1), tod |-> ts % SecondsPerDay]

day_key(ts) ==
    IF ts = 0 THEN Unknown ELSE CivilFromDays(ts \div SecondsPerDay, 1)

\* lines 281-284: "unknown", or the first seven characters of the day key.
MonthOfDay(day) == IF day = Unknown THEN Unknown ELSE [y |-> day.y, m |-> day.m, d |-> 0]

\* content.replace("\n", " ")
FlattenNewlines(cs) == [i \in 1..Len(cs) |-> IF cs[i] = "\n" THEN " " ELSE cs[i]]

\* line 263: the day-file line  ts TAB [iso] role: content
DayLine(m) ==
    [ts |-> m.ts, iso |-> to_iso(m.ts), role |-> m.role,
     content |-> FlattenNewlines(m.content)]

\* write_by_day_raw: each message with content is appended to its day's file.
RECURSIVE write_by_day_raw(_, _)
write_by_day_raw(msgs, day) ==
    IF msgs = <<>> THEN day
    ELSE LET m == Head(msgs)
             dk == day_key(m.ts)
         IN  IF m.content = <<>> THEN write_by_day_raw(Tail(msgs), day)
             ELSE write_by_day_raw(Tail(msgs),
                      [day EXCEPT ![dk] = Append(@, DayLine(m))])

\* lines 289-292: list.sort on the leading timestamp, a stable sort.
RECURSIVE InsertByTs(_, _)
InsertByTs(line, sorted) ==
    IF sorted = <<>> THEN <<line>>
    ELSE IF line.ts < Head(sorted).ts THEN <<line>> \o sorted
    ELSE <<Head(sorted)>> \o InsertByTs(line, Tail(sorted))

RECURSIVE SortByTs(_)
SortByTs(lines) ==
    IF lines = <<>> THEN <<>>
    ELSE InsertByTs(lines[Len(lines)], SortByTs(Take(lines, Len(lines) - 1)))

\* The order of the file names: dates as their text, "unknown" after them.
DayBefore(a, b) ==
    IF a = Unknown THEN FALSE
    ELSE IF b = Unknown THEN TRUE
    ELSE a.y < b.y \/ (a.y = b.y /\ (a.m < b.m \/ (a.m = b.m /\ a.d < b.d)))

\* line 276: sorted(os.listdir(day_dir))
RECURSIVE SortedDays(_)
SortedDays(days) ==
    IF days = {} THEN <<>>
    ELSE LET first == CHOOSE a \in days : \A b \in days \ {a} : DayBefore(a, b)
         IN  <<first>> \o SortedDays(days \ {first})

\* lines 296-303: the lines of one day file, anchored from count + 1 on.
AnchoredLines(lines, count) ==
    [i \in 1..Len(lines) |->
        [iso |-> lines[i].iso, role |-> lines[i].role,
         content |-> lines[i].content, anchor |-> count + i]]

\* line 293: open(out_path, "a"): what is in the file stays.
OpenMonthFile(existing) == existing

\* lines 278-303: the loop over the sorted day files.
RECURSIVE MonthLoop(_, _, _, _)
MonthLoop(days, day, month, month_counts) ==
    IF days = <<>> THEN month
    ELSE LET mkey == MonthOfDay(Head(days))
             lines == SortByTs(day[Head(days)])
         IN  MonthLoop(Tail(days), day,
                 [month EXCEPT ![mkey] =
                     OpenMonthFile(@) \o AnchoredLines(lines, month_counts[mkey])],
                 [month_counts EXCEPT ![mkey] = @ + Len(lines)])

\* The input's conversations, as the messages write_by_day_raw iterates
\* over; TsChoices are an undated time, four times of January 1st (one hour
\* and four hours apart), January 2nd and February 1st.
TsChoices == {0, 1000, 4600, 15400, 90000, 2679400}

\* Stand-ins for two of the phrases of TOPIC_TRIGGERS_DEFAULT.
TOPIC_TRIGGERS_DEFAULT == {"duile", "shunbian"}

Messages ==
    {[role |-> "user", content |-> <<"hi">>, ts |-> t] : t \in TsChoices}
    \cup {[role |-> "assistant", content |-> <<"ok", "\n", "duile">>, ts |-> 4600],
          [role |-> "user", content |-> <<>>, ts |-> 1000]}

DayKeys == {day_key(t) : t \in TsChoices}

MonthKeys == {MonthOfDay(d) : d \in DayKeys}

\* build_month_files on the day files day and the month files month.
build_month_files(day, month) ==
    MonthLoop(SortedDays({d \in DayKeys : day[d] # <<>>}), day, month,
              [k \in MonthKeys |-> 0])

\* lines 310-316: the leading [YYYY-MM-DD HH:MM:SS] of a line as a time; 0
\* stands for None (only the truth value of ts and last_ts is ever used).
LineTimestamp(line) ==
    IF line.iso = NoIso THEN 0
    ELSE (DaysBeforeMonth(line.iso.date.m) + line.iso.date.d - 1) * SecondsPerDay
             + line.iso.tod

\* Variant of GapReached: a gap of exactly the threshold does not count.
GapReached_Strict(ts, last_ts, gap_hours) == ts - last_ts > gap_hours * 3600

\* line 318
GapReached(ts, last_ts, gap_hours) == ts - last_ts >= gap_hours * 3600

\* line 320: any(t in line for t in triggers); the phrases can only be in
\* the content of the line.
HasTrigger(line, triggers) == \E i \in 1..Len(line.content) : line.content[i] \in triggers

\* lines 309-323: the loop, from line index i on; markers are line indexes
\* counted from 0.
RECURSIVE BoundaryLoop(_, _, _, _, _)
BoundaryLoop(lines, i, last_ts, gap_hours, triggers) ==
    IF i >= Len(lines) THEN {}
    ELSE LET line == lines[i + 1]
             ts == LineTimestamp(line)
         IN  (IF last_ts # 0 /\ ts # 0 /\ GapReached(ts, last_ts, gap_hours)
              THEN {i} ELSE {})
             \cup (IF HasTrigger(line, triggers) THEN {i} ELSE {})
             \cup BoundaryLoop(lines, i + 1, IF ts # 0 THEN ts ELSE last_ts,
                               gap_hours, triggers)

detect_topic_boundaries(lines, gap_hours, triggers) ==
    BoundaryLoop(lines, 0, 0, gap_hours, triggers) \cup {0}

TopicStart(line, idx) == [kind |-> "TOPIC_START", date |-> line.iso.date, idx |-> idx, line |-> line]

TopicLine(line) == [kind |-> "line", date |-> Unknown, idx |-> 0, line |-> line]

\* lines 345-352: the lines, each marked one preceded by its TOPIC_START.
RECURSIVE AnnotateLoop(_, _, _, _)
AnnotateLoop(lines, markers, i, topic_idx) ==
    IF i >= Len(lines) THEN <<>>
    ELSE IF i \in markers
    THEN <<TopicStart(lines[i + 1], topic_idx + 1), TopicLine(lines[i + 1])>>
             \o AnnotateLoop(lines, markers, i + 1, topic_idx + 1)
    ELSE <<TopicLine(lines[i + 1])>> \o AnnotateLoop(lines, markers, i + 1, topic_idx)

\* build_topic_preview: the preview of every month file that has lines is
\* written anew; the others are left as they are.
build_topic_preview(month, topics, gap_hours) ==
    [k \in MonthKeys |->
        IF month[k] = <<>> THEN topics[k]
        ELSE AnnotateLoop(month[k],
                 detect_topic_boundaries(month[k], gap_hours, TOPIC_TRIGGERS_DEFAULT),
                 0, 0)]

(***************************************************************************)
(* Runs of the tool on one output root.  a_day, a_month and a_topics are   *)
(* the files under by_day and by_month; a_gap and a_stage are the          *)
(* arguments of the last run and a_builds counts the month-stage runs.     *)
(***************************************************************************)
MaxLines == 3

MaxBuilds == 2

GapChoices == {1, 4}

RECURSIVE TotalLines(_, _)
TotalLines(day, keys) ==
    IF keys = {} THEN 0
    ELSE LET k == CHOOSE x \in keys : TRUE
         IN  Len(day[k]) + TotalLines(day, keys \ {k})

a_Idle ==
    /\ a_day = <<>> /\ a_month = <<>> /\ a_topics = <<>>
    /\ a_gap = 0 /\ a_builds = 0 /\ a_stage = "idle"

InitArchive ==
    /\ a_day = [d \in DayKeys |-> <<>>]
    /\ a_month = [k \in MonthKeys |-> <<>>]
    /\ a_topics = [k \in MonthKeys |-> <<>>]
    /\ a_gap = 4
    /\ a_builds = 0
    /\ a_stage = "none"

\* main, lines 424-433: --stage month on an input that holds msgs.
RunMonthStage ==
    /\ a_builds < MaxBuilds
    /\ \E msgs \in SeqsUpTo(Messages, MaxLines - TotalLines(a_day, DayKeys)),
          gap_hours \in GapChoices :
         LET day == write_by_day_raw(msgs, a_day)
             month == build_month_files(day, a_month)
         IN  /\ a_day' = day
             /\ a_month' = month
             /\ a_topics' = build_topic_preview(month, a_topics, gap_hours)
             /\ a_gap' = gap_hours
    /\ a_builds' = a_builds + 1
    /\ a_stage' = "month"
    /\ UNCHANGED <<n_vars, l_vars, s_vars>>

\* main, lines 435-437: --stage topic-preview.
RunTopicPreview ==
    /\ \E gap_hours \in GapChoices :
         /\ a_topics' = build_topic_preview(a_month, a_topics, gap_hours)
         /\ a_gap' = gap_hours
    /\ a_stage' = "topic-preview"
    /\ UNCHANGED <<a_day, a_month, a_builds>>
    /\ UNCHANGED <<n_vars, l_vars, s_vars>>

NextArchive == RunMonthStage \/ RunTopicPreview

(***************************************************************************)
(* Claims on the aggregation.                                              *)
(***************************************************************************)
\* C4: in every month file the anchors of successive lines are 1, 2, 3, ...
\* and the lines are in non-decreasing order of their timestamp.
C4_MonthAnchors ==
    \A k \in MonthKeys :
        \A i \in 1..Len(a_month[k]) :
            /\ a_month[k][i].anchor = i
            /\ i < Len(a_month[k]) =>
                   LineTimestamp(a_month[k][i]) <= LineTimestamp(a_month[k][i + 1])

\* The day files of month k, each sorted by time, one after the other.
RECURSIVE SortedConcat(_, _)
SortedConcat(days, k) ==
    IF days = <<>> THEN <<>>
    ELSE (IF MonthOfDay(Head(days)) = k THEN SortByTs(a_day[Head(days)]) ELSE <<>>)
             \o SortedConcat(Tail(days), k)

\* C10: after any sequence of month-stage runs, every month file is the
\* time-sorted concatenation of the current day files of that month, each
\* day-file line once, carrying the anchors 1..n.
C10_RebuildReplaces ==
    \A k \in MonthKeys :
        a_month[k] = AnchoredLines(SortedConcat(SortedDays(DayKeys), k), 0)

\* The position in a topics file of the line of index i (from 0).
LinePosition(topics, i) ==
    CHOOSE p \in 1..Len(topics) :
        /\ topics[p].kind = "line"
        /\ Cardinality({q \in 1..(p - 1) : topics[q].kind = "line"}) = i

MarkedBefore(topics, i) ==
    LET p == LinePosition(topics, i) IN
    p > 1 /\ topics[p - 1].kind = "TOPIC_START"

\* The latest parsed timestamp before line i (from 0), 0 when there is none.
PreviousParsed(lines, i) ==
    LET J == {j \in 1..i : LineTimestamp(lines[j]) # 0} IN
    IF J = {} THEN 0 ELSE LineTimestamp(lines[SetMax(J)])

GapBefore(lines, i, gap_hours) ==
    /\ LineTimestamp(lines[i + 1]) # 0
    /\ PreviousParsed(lines, i) # 0
    /\ LineTimestamp(lines[i + 1]) - PreviousParsed(lines, i) >= gap_hours * 3600

TriggerIn(lines, i) ==
    \E c \in Range(lines[i + 1].content) : c \in TOPIC_TRIGGERS_DEFAULT

MarkerIndexes(topics) == {p \in 1..Len(topics) : topics[p].kind = "TOPIC_START"}

\* C5: in the topics file of a month file, a TOPIC_START line stands
\* immediately before line i exactly when i = 0, or the time of line i is at
\* least the gap threshold after the previous parsed time, or line i holds a
\* trigger; the markers are numbered 1, 2, 3, ... in order, each is followed
\* by a line, and the lines of the month file are all there, in order.
C5_TopicMarkers ==
    \A k \in MonthKeys :
        a_month[k] # <<>> =>
            LET lines == a_month[k]
                topics == a_topics[k]
                kept == SelectSeq(topics, LAMBDA t : t.kind = "line")
            IN  /\ Len(kept) = Len(lines)
                /\ \A i \in 1..Len(lines) : kept[i].line = lines[i]
                /\ \A p \in MarkerIndexes(topics) :
                       /\ p < Len(topics) /\ topics[p + 1].kind = "line"
                       /\ topics[p].idx =
                              Cardinality({q \in MarkerIndexes(topics) : q <= p})
                /\ \A i \in 0..(Len(lines) - 1) :
                       MarkedBefore(topics, i) <=>
                           \/ i = 0
                           \/ GapBefore(lines, i, a_gap)
                           \/ TriggerIn(lines, i)

\* Two markers in a file of three lines: the second line is under the
\* threshold after the first and unmarked, the third is exactly the threshold
\* after the second, holds no trigger and is marked.
C5_Witness ==
    \E k \in MonthKeys :
        /\ Len(a_month[k]) = 3
        /\ Cardinality(MarkerIndexes(a_topics[k])) = 2
        /\ ~MarkedBefore(a_topics[k], 1)
        /\ MarkedBefore(a_topics[k], 2)
        /\ ~TriggerIn(a_month[k], 2)
        /\ LineTimestamp(a_month[k][2]) - LineTimestamp(a_month[k][1]) < a_gap * 3600
        /\ LineTimestamp(a_month[k][3]) - LineTimestamp(a_month[k][2]) = a_gap * 3600

(***************************************************************************)
(* Claim on the normalizer.                                                *)
(***************************************************************************)
\* C7: normalize_message is total: whatever the shapes of the fields of the
\* raw message, it returns a {role, content, ts} triple and never raises.
C7_NormalizeTotal == n_pc = "done" => ~n_out.raised

(***************************************************************************)
(* The four specifications.                                                *)
(***************************************************************************)
InitN == InitNormalize /\ l_Idle /\ s_Idle /\ a_Idle

NextN == NormalizeMessage

SpecNormalize == InitN /\ [][NextN]_vars

InitL == InitLinearize /\ n_Idle /\ s_Idle /\ a_Idle

SpecLinearize == InitL /\ [][NextLinearize]_vars

InitS == InitStream /\ n_Idle /\ l_Idle /\ a_Idle

SpecStream == InitS /\ [][NextStream]_vars

InitA == InitArchive /\ n_Idle /\ l_Idle /\ s_Idle

SpecArchive == InitA /\ [][NextArchive]_vars
====
